---- MODULE Spec2Model ----
(***************************************************************************)
(* Model of the Freshservice -> Nexus synchronisation script               *)
(* (pull_freshservice.py) and of the store it writes to.                   *)
(*                                                                         *)
(* One process: the script.  A run goes get_config -> get_nexus_token ->   *)
(* get_all_companies -> get_all_users -> populate_database_via_api -> exit.*)
(* Every HTTP request of the script is one step.  After the process has    *)
(* exited it may be started again against changed external data; the       *)
(* store persists between runs.                                            *)
(***************************************************************************)
EXTENDS Integers, Sequences, FiniteSets, TLC

\* ------------------------------------------------------------------ bounds
\* Largest number of departments the external source holds.
MaxCompanies == 2
\* Largest number of requesters the external source holds.
MaxUsers == 1
\* Records per page served by the external source (the script asks for 100).
PerPage == 1
\* Largest number of 429 answers the external source gives to one fetch.
Max429 == 1
\* Largest id of a location added through the web interface.
MaxLocations == 2

\* ----------------------------------------------------------- value domains
DeptIds == {10, 11}
Accts == {"A", "B"}
\* Values of custom_fields.account_number: empty, or an account number.
AccountKeys == {""} \cup Accts
Addresses == {"", "x"}
Phones == {"555"}
Emails == {"", "e1"}

\* custom_fields of a department: the key is missing, is JSON null, or is an
\* object.  The fields of a missing/null value are never read as data.
CustomFields ==
    {[kind |-> "missing", account_number |-> "", address |-> "", company_main_number |-> ""],
     [kind |-> "null", account_number |-> "", address |-> "", company_main_number |-> ""]}
    \cup [kind : {"obj"}, account_number : AccountKeys, address : Addresses,
          company_main_number : Phones]

\* The account number a department of the source carries, when it carries one.
AcctOfDept == [d \in DeptIds |-> IF d = 10 THEN "A" ELSE "B"]

\* The departments the source may hold: department 10 with account A and an
\* address; department 11 with account B and no address; and department 10
\* without a usable account number (custom_fields missing, null, or with an
\* empty account_number next to an address).
ExternalCompany ==
    {r \in [id : DeptIds, custom_fields : CustomFields] :
        \/ /\ r.custom_fields.account_number = AcctOfDept[r.id]
           /\ r.custom_fields.address = "" <=> r.id = 11
        \/ /\ r.id = 10
           /\ r.custom_fields.account_number = ""
           /\ r.custom_fields.kind = "obj" => r.custom_fields.address # ""}

\* The requesters the source may hold: one without primary email, and
\* requesters with an email who are in no department, in department 10, or
\* in departments 10 and 11.
ExternalUser ==
    {r \in [primary_email : Emails, department_ids : {{}, {10}, {10, 11}}] :
        r.primary_email = "" => r.department_ids = {}}

SeqsUpTo(S, n) == UNION {[1..k -> S] : k \in 0..n}

Min(a, b) == IF a < b THEN a ELSE b

\* Python's Optional: None, or a value.
None == [some |-> FALSE, v |-> <<>>]
Some(x) == [some |-> TRUE, v |-> x]
\* Truth value of an Optional list: None and [] are both false.
Truthy(o) == o.some /\ o.v # <<>>

\* --------------------------------------------------------------- HTTP layer
\* A request whose status is never checked.
RaisesForStatus_Never(status) == FALSE

\* requests.Response.raise_for_status raises HTTPError for 4xx and 5xx.
RaisesForStatus(status) == status >= 400 /\ status < 600

\* Statuses the external source answers with.
ExtStatuses == {200, 429, 500}
\* Statuses the local API answers a failed request with.
ApiErrorStatuses == {400, 500}

\* The Retry-After header: absent, or a decimal number of seconds.
RetryAfterHeaders ==
    {[present |-> FALSE, text |-> <<>>],
     [present |-> TRUE, text |-> <<"2">>],
     [present |-> TRUE, text |-> <<"1", "0">>]}

DigitVal(c) ==
    CASE c = "0" -> 0 [] c = "1" -> 1 [] c = "2" -> 2 [] c = "3" -> 3 [] c = "4" -> 4
      [] c = "5" -> 5 [] c = "6" -> 6 [] c = "7" -> 7 [] c = "8" -> 8 [] c = "9" -> 9

\* int() of a string of decimal digits.
RECURSIVE ParseInt(_)
ParseInt(text) ==
    IF text = <<>> THEN 0
    ELSE 10 * ParseInt(SubSeq(text, 1, Len(text) - 1)) + DigitVal(text[Len(text)])

DefaultRetryAfter == 5

\* int(response.headers.get('Retry-After', 5))
RetryAfter(header) == IF header.present THEN ParseInt(header.text) ELSE DefaultRetryAfter

\* The page of a collection the source serves for ?page=p&per_page=PerPage.
PageOf(coll, p) == SubSeq(coll, (p - 1) * PerPage + 1, Min(p * PerPage, Len(coll)))

\* ------------------------------------------------------ the external source
NoHeader == [present |-> FALSE, text |-> <<>>]

\* A transport failure: requests.get raises instead of returning.
TransportError == [exc |-> TRUE, status |-> 0, header |-> NoHeader]

\* No request has been answered yet.
NoResponse == [exc |-> FALSE, status |-> -1, header |-> NoHeader]

\* What the source can answer a page request with: no answer at all, or a
\* status, a 429 with or without a Retry-After header.
ExtResponses ==
    {TransportError}
    \cup {[exc |-> FALSE, status |-> st, header |-> h] :
            st \in ExtStatuses \ {429}, h \in {NoHeader}}
    \cup {[exc |-> FALSE, status |-> st, header |-> h] :
            st \in ExtStatuses \cap {429}, h \in RetryAfterHeaders}

\* A fetch that returns what it has when a request fails.
OnFetchError_Partial(accumulated) == Some(accumulated)

\* The value of a fetch whose request failed (the except clause).
OnFetchError(accumulated) == None

\* A fetch that moves on to the next page after a 429.
PageAfter429_Advance(p) == p + 1

\* The page a fetch asks for after a 429 answer to `page`.
PageAfter429(p) == p

\* A fetch that asks for the page it has just appended again.
NextPage_Stay(p) == p

\* A fetch that leaves a page out.
NextPage_Skip(p) == p + 2

\* page += 1
NextPage(p) == p + 1

\* A page request and the status of its answer (0: no answer), as logged.
PageRequest(p, resp) == [page |-> p, status |-> resp.status]

\* The number of requests of a log that were answered 429.
Answered429(log) == Cardinality({k \in 1..Len(log) : log[k].status = 429})

\* ------------------------------------------------- the store behind the API
\* GET /companies/{account_number}: 200 when the company exists, else 404.
SrvGetCompanyStatus(db, account_number) ==
    IF \E c \in db : c.account_number = account_number THEN 200 ELSE 404

\* The columns of a Company row that the model keeps; 0 and "" stand for
\* NULL.
CompanyFields ==
    {"account_number", "freshservice_id", "company_main_number", "head_name",
     "head_user_id"}

\* A row with the payload's fields, and NULL in the columns it does not name.
NewCompany(payload) ==
    [f \in CompanyFields |->
        IF f \in DOMAIN payload THEN payload[f]
        ELSE IF f = "head_user_id" THEN 0 ELSE ""]

\* POST /companies: a new row with the payload's fields.
SrvCreateCompany(db, payload) == db \cup {NewCompany(payload)}

\* PUT /companies/{account_number}: the fields of the payload are overwritten
\* in the row, the other columns stay.
SrvUpdateCompany(db, account_number, payload) ==
    {IF c.account_number = account_number
     THEN [f \in CompanyFields |-> IF f \in DOMAIN payload THEN payload[f] ELSE c[f]]
     ELSE c : c \in db}

\* The id an autoincrement column gives the next row.
NextId(rows) == IF rows = {} THEN 1 ELSE 1 + CHOOSE m \in {r.id : r \in rows} :
                                               \A r \in rows : r.id <= m

\* GET /contacts?email=: the ids of the contacts with that email.
SrvQueryContacts(db, email) == {c.id : c \in {d \in db : d.email = email}}

\* GET /contacts/{id}: company_account_numbers of the contact.
SrvGetContactAccounts(db, id) ==
    UNION {c.company_account_numbers : c \in {d \in db : d.id = id}}

\* POST /contacts: a new contact with the payload's association list.
SrvCreateContact(db, payload) ==
    db \cup {[id |-> NextId(db), email |-> payload.email,
              company_account_numbers |-> payload.company_account_numbers]}

\* PUT /contacts/{id}: fields and association list are those of the payload.
SrvUpdateContact(db, id, payload) ==
    {c \in db : c.id # id}
    \cup {[id |-> id, email |-> payload.email,
           company_account_numbers |-> payload.company_account_numbers]}

VARIABLES
    pc,              \* position of the script
    exit_code,       \* exit code of the last run: -1 while none has ended
    srcCompanies,    \* departments held by the external source
    srcUsers,        \* requesters held by the external source
    token_outcome,   \* what POST /token gave this run: "" while not asked
    nexus_token,     \* token of get_nexus_token: "" for None
    page,            \* page counter of the running fetch
    all_companies,   \* accumulator of get_all_companies
    all_users,       \* accumulator of get_all_users
    slept,           \* seconds the last pass of the fetch loop slept
    fs_response,     \* the last answer to the running fetch
    requested,       \* the page requests of the running fetch, in order
    companies,       \* Optional result of get_all_companies
    users,           \* Optional result of get_all_users
    fs_dept_id_to_account_number,  \* the lookup table: a function on some DeptIds
    ci,              \* index of the company the loop is at
    ui,              \* index of the user the loop is at
    response,        \* status of the company lookup
    contact_id,      \* id of existing_contact: 0 for None
    fs_company_account_numbers,    \* account numbers resolved for the user
    all_account_numbers,           \* union sent with a contact update
    calls,           \* requests this run sent to the local API
    db_companies,    \* Company rows
    db_contacts,     \* Contact rows with their associations
    db_locations,    \* Location rows
    hist,            \* what an observer of two runs on the same data has noted
    route_call       \* the last request to a route of the web interface, and its
                     \* status, as a client of the routes has noted it

fetchVars == <<page, all_companies, all_users, slept, fs_response, requested,
              companies, users>>
loopVars == <<fs_dept_id_to_account_number, ci, ui, response, contact_id,
              fs_company_account_numbers, all_account_numbers>>
storeVars == <<db_companies, db_contacts, db_locations>>
srcVars == <<srcCompanies, srcUsers>>

authVars == <<token_outcome, nexus_token>>

vars == <<pc, exit_code, srcVars, authVars, fetchVars, loopVars, calls, storeVars,
          hist, route_call>>

EmptyMap == [d \in {} |-> ""]

\* The state of a process that is not running.
NotRunning ==
    /\ token_outcome = ""
    /\ nexus_token = ""
    /\ page = 1
    /\ all_companies = <<>>
    /\ all_users = <<>>
    /\ slept = 0
    /\ fs_response = NoResponse
    /\ requested = <<>>
    /\ companies = None
    /\ users = None
    /\ fs_dept_id_to_account_number = EmptyMap
    /\ ci = 0
    /\ ui = 0
    /\ response = 0
    /\ contact_id = 0
    /\ fs_company_account_numbers = {}
    /\ all_account_numbers = {}
    /\ calls = <<>>

\* ----------------------------------------------------------- the observer
\* The external data may change between any two runs.  To compare two runs
\* on the same data, an observer watches three runs in a row: one on any
\* data ("warm"), which leaves the store in some state; one on any data
\* ("first"), of which the observer notes the data and the store it leaves;
\* and, when that one has completed, one ("second") in which the source
\* holds what it held in the run before.  While the observer is away ("off")
\* nothing is noted and nothing is held fixed.
NoHist == [phase |-> "off", companies |-> <<>>, users |-> <<>>,
           store |-> <<{}, {}, {}>>]

\* The script is started: the departments of the source.
ObserveStart ==
    /\ hist.phase # "over"
    /\ hist.phase = "second" => srcCompanies' = hist.companies
    /\ hist' = IF hist.phase = "first" THEN [hist EXCEPT !.companies = srcCompanies']
               ELSE hist

\* get_all_users is called: the requesters of the source.
ObserveUsers ==
    /\ hist.phase = "second" => srcUsers' = hist.users
    /\ hist' = IF hist.phase = "first" THEN [hist EXCEPT !.users = srcUsers']
               ELSE hist

\* The script has ended: the next run to watch, and the store the run left.
ObserveEnd ==
    hist' = IF hist.phase = "off" THEN hist
            ELSE IF hist.phase = "warm" THEN [hist EXCEPT !.phase = "first"]
            ELSE IF hist.phase = "first" /\ exit_code = 0
            THEN [hist EXCEPT !.phase = "second", !.store = storeVars]
            ELSE [NoHist EXCEPT !.phase = "over"]

\* The script has not been started yet.
NotStarted ==
    /\ pc = "idle"
    /\ exit_code = -1
    /\ srcCompanies = <<>>
    /\ srcUsers = <<>>
    /\ NotRunning

InitScript ==
    /\ NotStarted
    /\ db_companies = {}
    /\ db_contacts = {}
    /\ db_locations = {}

\* No client of the routes is noting its calls.
Unwatched == [route |-> "unwatched", permission_level |-> "", account_number |-> "",
              location_id |-> 0, data |-> <<>>, status |-> 0]

Init == InitScript /\ hist = NoHist /\ route_call = Unwatched

InitIdem ==
    InitScript /\ hist = [NoHist EXCEPT !.phase = "warm"] /\ route_call = Unwatched

\* sys.exit(code), or the end of the script (code 0).
Exit(code) ==
    /\ pc' = "exited"
    /\ exit_code' = code

\* The script is started; the external source holds some departments.
StartRun ==
    /\ pc = "idle"
    /\ srcCompanies' \in SeqsUpTo(ExternalCompany, MaxCompanies)
    /\ srcUsers' = <<>>
    /\ pc' = "config"
    /\ exit_code' = -1
    /\ ObserveStart
    /\ UNCHANGED route_call
    /\ UNCHANGED <<authVars, fetchVars, loopVars, calls, storeVars>>

\* get_config and the four config.get calls: a missing file, section or
\* option raises, and the handler of __main__ exits with 1.
LoadConfig ==
    /\ pc = "config"
    /\ \E loaded \in BOOLEAN :
         IF loaded THEN pc' = "token" /\ exit_code' = exit_code
         ELSE Exit(1)
    /\ UNCHANGED <<hist, route_call>>
    /\ UNCHANGED <<srcVars, authVars, fetchVars, loopVars, calls, storeVars>>

\* What POST /token can give: a token, a body without one (or with an empty
\* one), an error status, or no answer at all.
TokenOutcomes == {"token", "no_token", "http_error", "transport_error"}

\* A token whatever the answer was.
TokenOf_Always(outcome) == "jwt"

\* get_nexus_token's return value: "" stands for None.
TokenOf(outcome) == IF outcome = "token" THEN "jwt" ELSE ""

\* get_nexus_token, and the test of its result in __main__.
GetNexusToken ==
    /\ pc = "token"
    /\ \E outcome \in TokenOutcomes :
         /\ token_outcome' = outcome
         /\ nexus_token' = TokenOf(outcome)
         /\ IF nexus_token' = "" THEN Exit(1)
            ELSE pc' = "companies" /\ exit_code' = exit_code
    /\ UNCHANGED <<hist, route_call>>
    /\ UNCHANGED <<srcVars, fetchVars, loopVars, calls, storeVars>>

\* One pass of the loop of get_all_companies: the request of a page and what
\* follows from the answer.  The function returns None on any failure and
\* the accumulated list on an empty page.
FetchCompaniesPage ==
    /\ pc = "companies"
    /\ \E resp \in ExtResponses :
         LET companies_on_page == PageOf(srcCompanies, page) IN
         /\ fs_response' = resp
         /\ requested' = Append(requested, PageRequest(page, resp))
         /\ IF resp.exc \/ RaisesForStatus(resp.status)
            THEN /\ companies' = OnFetchError(all_companies)
                 /\ pc' = "got_companies"
                 /\ UNCHANGED <<all_companies, page>>
            ELSE IF companies_on_page = <<>>
            THEN /\ companies' = Some(all_companies)
                 /\ pc' = "got_companies"
                 /\ UNCHANGED <<all_companies, page>>
            ELSE /\ all_companies' = all_companies \o companies_on_page
                 /\ page' = NextPage(page)
                 /\ UNCHANGED <<pc, companies>>
    /\ UNCHANGED <<hist, route_call>>
    /\ UNCHANGED <<exit_code, srcVars, authVars, all_users, slept, users,
                   loopVars, calls, storeVars>>

\* The batches of MaxUsers + 1 requesters in which two or more carry the
\* primary email e1.
SharedEmailBatches ==
    {batch \in [1..(MaxUsers + 1) -> ExternalUser] :
        Cardinality({k \in 1..(MaxUsers + 1) : batch[k].primary_email = "e1"}) >= 2}

\* __main__ calls get_all_users whatever get_all_companies returned; the
\* function starts with an empty list at page 1.  The source holds one of
\* the given collections of requesters; its departments are not asked for
\* again.
CallGetAllUsersOf(held) ==
    /\ pc = "got_companies"
    /\ pc' = "users"
    /\ page' = 1
    /\ fs_response' = NoResponse
    /\ requested' = <<>>
    /\ all_companies' = <<>>
    /\ srcCompanies' = <<>>
    /\ srcUsers' \in held
    /\ ObserveUsers
    /\ UNCHANGED route_call
    /\ UNCHANGED <<exit_code, authVars, all_users, slept, companies,
                   users, loopVars, calls, storeVars>>

\* The source holds any requesters, up to MaxUsers of them.
CallGetAllUsers == CallGetAllUsersOf(SeqsUpTo(ExternalUser, MaxUsers))

\* The source holds requesters of whom several carry the same primary email.
CallGetAllUsersShared == CallGetAllUsersOf(SharedEmailBatches)

\* One pass of the loop of get_all_users: a 429 answer sleeps and asks for
\* the same page again.  The source answers one fetch with 429 at most
\* Max429 times.
FetchUsersPage ==
    /\ pc = "users"
    /\ \E resp \in ExtResponses :
         LET users_on_page == PageOf(srcUsers, page) IN
         /\ resp.status = 429 => Answered429(requested) < Max429
         /\ fs_response' = resp
         /\ requested' = Append(requested, PageRequest(page, resp))
         /\ IF resp.exc
            THEN /\ users' = OnFetchError(all_users)
                 /\ pc' = "check"
                 /\ slept' = 0
                 /\ UNCHANGED <<all_users, page>>
            ELSE IF resp.status = 429
            THEN /\ slept' = RetryAfter(resp.header)
                 /\ page' = PageAfter429(page)
                 /\ UNCHANGED <<pc, users, all_users>>
            ELSE IF RaisesForStatus(resp.status)
            THEN /\ users' = OnFetchError(all_users)
                 /\ pc' = "check"
                 /\ slept' = 0
                 /\ UNCHANGED <<all_users, page>>
            ELSE IF users_on_page = <<>>
            THEN /\ users' = Some(all_users)
                 /\ pc' = "check"
                 /\ slept' = 0
                 /\ UNCHANGED <<all_users, page>>
            ELSE /\ all_users' = all_users \o users_on_page
                 /\ page' = NextPage(page)
                 /\ slept' = 0
                 /\ UNCHANGED <<pc, users>>
    /\ UNCHANGED <<hist, route_call>>
    /\ UNCHANGED <<exit_code, srcVars, authVars, all_companies, companies,
                   loopVars, calls, storeVars>>

\* `if companies and users:` in __main__, and the token test at the head of
\* populate_database_via_api (a return there ends the script with code 0).
\* users_by_department, built at the head of the function, is never read
\* and has no variable here.
CheckFetched ==
    /\ pc = "check"
    /\ IF Truthy(companies) /\ Truthy(users)
       THEN IF nexus_token = "" THEN Exit(0) /\ ci' = ci
            ELSE pc' = "c_get" /\ ci' = 1 /\ exit_code' = exit_code
       ELSE Exit(1) /\ ci' = ci
    /\ page' = 1
    /\ fs_response' = NoResponse
    /\ requested' = <<>>
    /\ all_users' = <<>>
    /\ srcUsers' = <<>>
    /\ UNCHANGED <<hist, route_call>>
    /\ UNCHANGED <<srcCompanies, authVars, all_companies, slept, companies, users,
                   fs_dept_id_to_account_number, ui, response, contact_id,
                   fs_company_account_numbers, all_account_numbers, calls, storeVars>>

\* ------------------------------------------- populate_database_via_api
\* A request to the local API, as recorded in calls.
Call(method, resource, idx, status) ==
    [method |-> method, resource |-> resource, idx |-> idx, status |-> status]

\* The statuses a request to the local API can come back with, given the
\* status it has when the server handles it.
ApiStatuses(handled) == {handled} \cup ApiErrorStatuses

\* A loop over the companies that ends after its first pass.
CompaniesDone_Early(i, n) == TRUE

\* `for company_data in companies_data:` is through after pass i of n.
CompaniesDone(i, n) == i >= n

\* `continue`, or the end of the body, in the loop over companies_data: the
\* next company, or the first user once the companies are through.
NextCompany ==
    /\ ci' = ci + 1
    /\ IF CompaniesDone(ci, Len(companies.v))
       THEN pc' = "u_query" /\ ui' = 1
       ELSE pc' = "c_get" /\ ui' = ui
    /\ exit_code' = exit_code

\* `continue`, or the end of the body, in the loop over users_data: the next
\* user, or the end of the script.
NextUser ==
    /\ ui' = ui + 1
    /\ IF ui < Len(users.v)
       THEN pc' = "u_query" /\ exit_code' = exit_code
       ELSE Exit(0)

\* A write that always creates.
WriteMethod_AlwaysCreate(lookup_status) == "POST"

\* A script that deletes the company it has found.
WriteMethod_Delete(lookup_status) == IF lookup_status = 404 THEN "POST" ELSE "DELETE"

\* The branch at `if response.status_code == 404`: create, else update.
WriteMethod(lookup_status) == IF lookup_status = 404 THEN "POST" ELSE "PUT"

\* An update that replaces the associations by the resolved ones.
MergeAccountNumbers_Replace(nexus_numbers, fs_numbers) == fs_numbers

\* nexus_company_account_numbers.union(fs_company_account_numbers)
MergeAccountNumbers(nexus_numbers, fs_numbers) == nexus_numbers \cup fs_numbers

\* company_payload, with the fields the model keeps; the departments of the
\* model carry no head_name, and company_data.get('head_name') is None.
CompanyPayload(company_data) ==
    [account_number |-> company_data.custom_fields.account_number,
     freshservice_id |-> company_data.id,
     company_main_number |-> company_data.custom_fields.company_main_number,
     head_name |-> ""]

\* The head of the loop body for one company, up to the lookup request:
\* a null custom_fields raises at custom_fields.get('address'); a company
\* without account number is skipped; otherwise the lookup table gets the
\* company and GET /companies/{account_number} is sent.
CompanyGet ==
    /\ pc = "c_get"
    /\ LET company_data == companies.v[ci]
           custom_fields == company_data.custom_fields
           account_number == IF custom_fields.kind = "obj"
                             THEN custom_fields.account_number ELSE ""
       IN IF custom_fields.kind = "null"
          THEN /\ Exit(1)
               /\ UNCHANGED <<fs_dept_id_to_account_number, ci, ui, response, calls>>
          ELSE IF account_number = ""
          THEN /\ NextCompany
               /\ UNCHANGED <<fs_dept_id_to_account_number, response, calls>>
          ELSE \E status \in ApiStatuses(SrvGetCompanyStatus(db_companies, account_number)) :
               /\ fs_dept_id_to_account_number' =
                     [d \in DOMAIN fs_dept_id_to_account_number \cup {company_data.id} |->
                        IF d = company_data.id THEN account_number
                        ELSE fs_dept_id_to_account_number[d]]
               /\ response' = status
               /\ calls' = Append(calls, Call("GET", "companies", ci, status))
               /\ pc' = "c_write"
               /\ UNCHANGED <<exit_code, ci, ui>>
    /\ UNCHANGED <<hist, route_call>>
    /\ UNCHANGED <<srcVars, authVars, fetchVars, contact_id,
                   fs_company_account_numbers, all_account_numbers, storeVars>>

\* The write for one company: POST when the lookup said 404; otherwise the
\* lookup's own error is raised, or PUT is sent.  A write that comes back
\* with an error status raises.  A company with an address goes on to the
\* location, any other to the next company.
CompanyWrite ==
    /\ pc = "c_write"
    /\ LET company_data == companies.v[ci]
           account_number == company_data.custom_fields.account_number
           address == company_data.custom_fields.address
           company_payload == CompanyPayload(company_data)
           method == WriteMethod(response)
       IN IF response # 404 /\ RaisesForStatus(response)
          THEN /\ Exit(1)
               /\ UNCHANGED <<ci, ui, calls, db_companies>>
          ELSE \E status \in ApiStatuses(IF method = "POST" THEN 201 ELSE 200) :
               /\ calls' = Append(calls, Call(method, "companies", ci, status))
               /\ IF RaisesForStatus(status)
                  THEN /\ Exit(1)
                       /\ UNCHANGED <<ci, ui, db_companies>>
                  ELSE /\ db_companies' =
                             IF method = "POST"
                             THEN SrvCreateCompany(db_companies, company_payload)
                             ELSE SrvUpdateCompany(db_companies, account_number,
                                                   company_payload)
                       /\ IF address # ""
                          THEN pc' = "c_loc" /\ UNCHANGED <<exit_code, ci, ui>>
                          ELSE NextCompany
    /\ response' = 0
    /\ UNCHANGED <<hist, route_call>>
    /\ UNCHANGED <<srcVars, authVars, fetchVars, fs_dept_id_to_account_number,
                   contact_id, fs_company_account_numbers, all_account_numbers,
                   db_contacts, db_locations>>

\* A query that never finds the "Main Office" row.
MainOffices_None(db, account_number) == {}

\* The "Main Office" rows of a company.
MainOffices(db, account_number) ==
    {l \in db : l.company_account_number = account_number /\ l.name = "Main Office"}

\* The location of a company with an address: the first "Main Office" row of
\* the company, or a new one, gets the address and the phone number.
LocationSync ==
    /\ pc = "c_loc"
    /\ LET company_data == companies.v[ci]
           account_number == company_data.custom_fields.account_number
           address == company_data.custom_fields.address
           main_phone == company_data.custom_fields.company_main_number
           found == MainOffices(db_locations, account_number)
           fresh == [id |-> NextId(db_locations), name |-> "Main Office",
                     company_account_number |-> account_number,
                     address |-> "", phone_number |-> ""]
       IN \E location \in (IF found = {} THEN {fresh} ELSE found) :
            db_locations' = (db_locations \ {location})
                \cup {[location EXCEPT !.address = address, !.phone_number = main_phone]}
    /\ calls' = Append(calls, Call("DB", "locations", ci, 0))
    /\ NextCompany
    /\ UNCHANGED <<hist, route_call>>
    /\ UNCHANGED <<srcVars, authVars, fetchVars, fs_dept_id_to_account_number,
                   response, contact_id, fs_company_account_numbers,
                   all_account_numbers, db_companies, db_contacts>>

\* A resolution that keeps what lookup.get gives for an unknown department.
Resolve_KeepMissing(lookup, department_ids) ==
    {IF d \in DOMAIN lookup THEN lookup[d] ELSE "" : d \in department_ids}

\* {lookup.get(d) for d in department_ids if lookup.get(d)}
Resolve(lookup, department_ids) ==
    {lookup[d] : d \in {e \in department_ids \cap DOMAIN lookup : lookup[e] # ""}}

\* A payload that leaves the account numbers out.
ContactPayload_NoAccounts(user_data, account_numbers) ==
    [email |-> user_data.primary_email, company_account_numbers |-> {}]

\* contact_payload, with the fields the model keeps.
ContactPayload(user_data, account_numbers) ==
    [email |-> user_data.primary_email, company_account_numbers |-> account_numbers]

\* A lookup whose answer is never used.
ExistingContacts_None(existing_contact_list) == {0}

\* `existing_contact_list[0] if existing_contact_list else None`: the
\* contacts the first of the answer can be, 0 standing for None.
ExistingContacts(existing_contact_list) ==
    IF existing_contact_list = {} THEN {0} ELSE existing_contact_list

\* The head of the loop body for one user: a user without primary email is
\* skipped; otherwise GET /contacts?email= is sent, an error status raises,
\* and the first contact of the answer (if any) is the existing contact.
ContactQuery ==
    /\ pc = "u_query"
    /\ LET user_data == users.v[ui]
           email == user_data.primary_email
           existing_contact_list == SrvQueryContacts(db_contacts, email)
       IN IF email = ""
          THEN /\ NextUser
               /\ UNCHANGED <<contact_id, fs_company_account_numbers, calls>>
          ELSE \E status \in ApiStatuses(200) :
               /\ calls' = Append(calls, Call("GET", "contacts", ui, status))
               /\ IF RaisesForStatus(status)
                  THEN /\ Exit(1)
                       /\ UNCHANGED <<ui, contact_id, fs_company_account_numbers>>
                  ELSE /\ \E first \in ExistingContacts(existing_contact_list) :
                            /\ contact_id' = first
                            /\ pc' = IF first = 0 THEN "u_create" ELSE "u_detail"
                       /\ fs_company_account_numbers' =
                             Resolve(fs_dept_id_to_account_number, user_data.department_ids)
                       /\ UNCHANGED <<exit_code, ui>>
    /\ UNCHANGED <<hist, route_call>>
    /\ UNCHANGED <<srcVars, authVars, fetchVars, fs_dept_id_to_account_number, ci,
                   response, all_account_numbers, storeVars>>

\* No existing contact: POST /contacts with the resolved account numbers.
ContactCreate ==
    /\ pc = "u_create"
    /\ LET contact_payload == ContactPayload(users.v[ui], fs_company_account_numbers)
       IN \E status \in ApiStatuses(201) :
            /\ calls' = Append(calls, Call("POST", "contacts", ui, status))
            /\ IF RaisesForStatus(status)
               THEN Exit(1) /\ UNCHANGED <<ui, db_contacts>>
               ELSE /\ db_contacts' = SrvCreateContact(db_contacts, contact_payload)
                    /\ NextUser
    /\ fs_company_account_numbers' = {}
    /\ UNCHANGED <<hist, route_call>>
    /\ UNCHANGED <<srcVars, authVars, fetchVars, fs_dept_id_to_account_number, ci,
                   response, contact_id, all_account_numbers, db_companies, db_locations>>

\* An existing contact: GET /contacts/{id}, and the union of its account
\* numbers with the resolved ones.
ContactDetail ==
    /\ pc = "u_detail"
    /\ \E status \in ApiStatuses(200) :
         /\ calls' = Append(calls, Call("GET", "contacts", ui, status))
         /\ IF RaisesForStatus(status)
            THEN Exit(1) /\ UNCHANGED all_account_numbers
            ELSE LET nexus_company_account_numbers ==
                         SrvGetContactAccounts(db_contacts, contact_id)
                 IN /\ all_account_numbers' =
                          MergeAccountNumbers(nexus_company_account_numbers,
                                              fs_company_account_numbers)
                    /\ pc' = "u_update"
                    /\ exit_code' = exit_code
    /\ UNCHANGED <<hist, route_call>>
    /\ UNCHANGED <<srcVars, authVars, fetchVars, fs_dept_id_to_account_number, ci, ui,
                   response, contact_id, fs_company_account_numbers, storeVars>>

\* PUT /contacts/{id} with the union.
ContactUpdate ==
    /\ pc = "u_update"
    /\ LET contact_payload == ContactPayload(users.v[ui], all_account_numbers)
       IN \E status \in ApiStatuses(200) :
            /\ calls' = Append(calls, Call("PUT", "contacts", ui, status))
            /\ IF RaisesForStatus(status)
               THEN Exit(1) /\ UNCHANGED <<ui, db_contacts>>
               ELSE /\ db_contacts' = SrvUpdateContact(db_contacts, contact_id,
                                                       contact_payload)
                    /\ NextUser
    /\ contact_id' = 0
    /\ fs_company_account_numbers' = {}
    /\ all_account_numbers' = {}
    /\ UNCHANGED <<hist, route_call>>
    /\ UNCHANGED <<srcVars, authVars, fetchVars, fs_dept_id_to_account_number, ci,
                   response, db_companies, db_locations>>

\* The process is gone: nothing of it remains but its exit code and what it
\* wrote to the store.
ProcessEnd ==
    /\ pc = "exited"
    /\ pc' = "idle"
    /\ srcCompanies' = <<>>
    /\ srcUsers' = <<>>
    /\ token_outcome' = ""
    /\ nexus_token' = ""
    /\ page' = 1
    /\ all_companies' = <<>>
    /\ all_users' = <<>>
    /\ slept' = 0
    /\ fs_response' = NoResponse
    /\ requested' = <<>>
    /\ companies' = None
    /\ users' = None
    /\ fs_dept_id_to_account_number' = EmptyMap
    /\ ci' = 0
    /\ ui' = 0
    /\ response' = 0
    /\ contact_id' = 0
    /\ fs_company_account_numbers' = {}
    /\ all_account_numbers' = {}
    /\ calls' = <<>>
    /\ ObserveEnd
    /\ UNCHANGED route_call
    /\ UNCHANGED <<exit_code, storeVars>>

Next ==
    \/ StartRun
    \/ LoadConfig
    \/ GetNexusToken
    \/ FetchCompaniesPage
    \/ CallGetAllUsers
    \/ FetchUsersPage
    \/ CheckFetched
    \/ CompanyGet
    \/ CompanyWrite
    \/ LocationSync
    \/ ContactQuery
    \/ ContactCreate
    \/ ContactDetail
    \/ ContactUpdate
    \/ ProcessEnd

\* Runs of the script, one after the other, against arbitrary, changing
\* external data.
Spec == Init /\ [][Next]_vars

\* Three runs of the script, the third on the external data of the second.
SpecIdem == InitIdem /\ [][Next]_vars

\* The steps of one run of the script, from its start to its exit.
NextRun ==
    \/ StartRun
    \/ LoadConfig
    \/ GetNexusToken
    \/ FetchCompaniesPage
    \/ CallGetAllUsers
    \/ FetchUsersPage
    \/ CheckFetched
    \/ CompanyGet
    \/ CompanyWrite
    \/ LocationSync
    \/ ContactQuery
    \/ ContactCreate
    \/ ContactDetail
    \/ ContactUpdate

\* The script has not been started; the store is empty, or holds the contact
\* an earlier run has created for a requester e1 in no department.
InitRun ==
    /\ NotStarted
    /\ db_companies = {}
    /\ db_contacts \in {{}, SrvCreateContact({}, [email |-> "e1",
                                                  company_account_numbers |-> {}])}
    /\ db_locations = {}
    /\ hist = NoHist
    /\ route_call = Unwatched

\* The steps of one run of the script on a batch of requesters of whom
\* several carry the same primary email.
NextShared ==
    \/ StartRun
    \/ LoadConfig
    \/ GetNexusToken
    \/ FetchCompaniesPage
    \/ CallGetAllUsersShared
    \/ FetchUsersPage
    \/ CheckFetched
    \/ CompanyGet
    \/ CompanyWrite
    \/ LocationSync
    \/ ContactQuery
    \/ ContactCreate
    \/ ContactDetail
    \/ ContactUpdate

\* One run of the script in which get_all_users, once called, keeps going:
\* each request of its loop is answered or times out (timeout=30), and a
\* sleep ends.  The source answers a fetch with 429 at most Max429 times.
SpecFair == InitRun /\ [][NextRun]_vars /\ WF_vars(FetchUsersPage)

\* One run of the script on a batch with a shared primary email.
SpecShared == InitRun /\ [][NextShared]_vars

\* Another client of the local API associates a contact of the store with a
\* company of the store, in a request of its own.
AddAssociation ==
    /\ \E c \in db_contacts :
         \E account_number \in Accts \ c.company_account_numbers :
            /\ \E company \in db_companies : company.account_number = account_number
            /\ db_contacts' = (db_contacts \ {c}) \cup
                  {[c EXCEPT !.company_account_numbers = @ \cup {account_number}]}
    /\ UNCHANGED <<pc, exit_code, srcVars, authVars, fetchVars, loopVars, calls,
                   db_companies, db_locations, hist, route_call>>

NextInterleaved == NextRun \/ AddAssociation

\* One run of the script while another client of the local API adds
\* associations: each request is served on its own, in any order with the
\* requests of the script.
SpecInterleaved == InitRun /\ [][NextInterleaved]_vars

\* ------------------------------------------------- routes/companies.py
\* The routes of the web interface that write to the store.  Each request is
\* handled in one step.
PermissionLevels == {"technician", "billing"}

\* A gate that lets every caller pass.
Permitted_Anyone(permission_level) == TRUE

\* g.user.get('permission_level') in ['admin', 'technician']
Permitted(permission_level) == permission_level \in {"admin", "technician"}

\* A JSON object with the keys `keys` of the record r.
Restrict(r, keys) == [k \in keys |-> r[k]]

\* data.get(key): "" stands for None.
Get(data, key) == IF key \in DOMAIN data THEN data[key] ELSE ""

\* Bodies of POST /companies/{account_number}/locations: an empty object, a
\* name without address, an address without name, and a name with an
\* address.  No phone_number is sent.
LocationBodies ==
    {Restrict([name |-> "Main Office", address |-> "y"], keys) :
        keys \in SUBSET {"name", "address"}}

\* Bodies of PUT /companies/{account_number}/update, of four keys, two of
\* them editable: an empty object; one editable key (the user id empty, a
\* number, or no number); and all four keys.
\* head_user_id is a string of characters.
UpdateBodies ==
    {Restrict(r, keys) :
        r \in [company_main_number : {"777"},
               head_user_id : {<<>>, <<"7">>, <<"x">>},
               account_number : {"Z"},
               freshservice_id : {"99"}],
        keys \in {{}, {"company_main_number"}, {"head_user_id"}}}
    \cup {[company_main_number |-> "777", head_user_id |-> <<"7">>,
           account_number |-> "Z", freshservice_id |-> "99"]}

\* A request to a route and the status of its answer.
RouteCall(route, permission_level, account_number, location_id, data, status) ==
    [route |-> route, permission_level |-> permission_level,
     account_number |-> account_number, location_id |-> location_id,
     data |-> data, status |-> status]

\* No request has been sent yet by the client that notes its calls.
NoCall == RouteCall("none", "", "", 0, EmptyMap, 0)

\* What the client of the routes has noted after a call.
Noted(call) == IF route_call = Unwatched THEN Unwatched ELSE call

\* The Location row add_location makes of a body.
NewLocation(id, account_number, data) ==
    [id |-> id, name |-> Get(data, "name"),
     company_account_number |-> account_number,
     address |-> Get(data, "address"),
     phone_number |-> Get(data, "phone_number")]

\* add_location: POST /companies/{account_number}/locations.
AddLocation ==
    /\ \E permission_level \in PermissionLevels, account_number \in Accts,
          data \in LocationBodies :
         LET company == {c \in db_companies : c.account_number = account_number}
             location == NewLocation(NextId(db_locations), account_number, data)
             status == IF ~Permitted(permission_level) THEN 403
                       ELSE IF company = {} THEN 404
                       ELSE IF Get(data, "name") = "" \/ Get(data, "address") = ""
                       THEN 400
                       ELSE 200
         IN /\ status = 200 => location.id <= MaxLocations
            /\ db_locations' = IF status = 200 THEN db_locations \cup {location}
                               ELSE db_locations
            /\ route_call' = Noted(RouteCall("add_location", permission_level,
                                             account_number, 0, data, status))
    /\ UNCHANGED <<pc, exit_code, srcVars, authVars, fetchVars, loopVars, calls,
                   db_companies, db_contacts, hist>>

\* delete_location: DELETE /companies/{account_number}/locations/{location_id},
\* for the id of a row or an id no row has.
DeleteLocation ==
    /\ \E permission_level \in PermissionLevels, account_number \in Accts,
          location_id \in {l.id : l \in db_locations} \cup {MaxLocations + 1} :
         LET found == {l \in db_locations :
                          /\ l.id = location_id
                          /\ l.company_account_number = account_number}
             status == IF ~Permitted(permission_level) THEN 403
                       ELSE IF found = {} THEN 404
                       ELSE 200
         IN /\ db_locations' = IF status = 200 THEN db_locations \ found
                               ELSE db_locations
            /\ route_call' = Noted(RouteCall("delete_location", permission_level,
                                             account_number, location_id, EmptyMap,
                                             status))
    /\ UNCHANGED <<pc, exit_code, srcVars, authVars, fetchVars, loopVars, calls,
                   db_companies, db_contacts, hist>>

\* A list of editable fields that holds the key of the row as well.
EditableFields_WithKey ==
    {"name", "description", "billing_plan", "support_level", "email_system",
     "phone_system", "contract_term_length", "managed_users", "managed_devices",
     "managed_network", "company_main_number", "address", "datto_portal_url",
     "domains", "head_user_id", "prime_user_id", "company_start_date",
     "contract_start_date", "contract_end_date", "account_number"}

\* editable_fields of update_company.
EditableFields ==
    {"name", "description", "billing_plan", "support_level", "email_system",
     "phone_system", "contract_term_length", "managed_users", "managed_devices",
     "managed_network", "company_main_number", "address", "datto_portal_url",
     "domains", "head_user_id", "prime_user_id", "company_start_date",
     "contract_start_date", "contract_end_date"}

\* The text is a decimal number: int() does not raise on it.
IsDecimal(text) ==
    /\ text # <<>>
    /\ \A k \in 1..Len(text) :
          text[k] \in {"0", "1", "2", "3", "4", "5", "6", "7", "8", "9"}

\* The value setattr gets for a field: '' becomes None, and a user id that
\* is not None becomes an int.
FieldValue(field, value) ==
    IF field \in {"head_user_id", "prime_user_id"}
    THEN IF value = <<>> THEN 0 ELSE ParseInt(value)
    ELSE value

\* The name of the contact whose freshservice_id is the head user id, as
\* Contact.query finds it: "" when there is none.
HeadContactNames == {"", "Ann"}

\* update_company: PUT /companies/{account_number}/update.  A head_user_id
\* that is no number raises at int(); a commit that fails is rolled back.
UpdateCompany ==
    /\ \E permission_level \in PermissionLevels, account_number \in Accts,
          data \in UpdateBodies :
         LET company == {c \in db_companies : c.account_number = account_number}
             given == EditableFields \cap DOMAIN data
             head_given == "head_user_id" \in DOMAIN data /\ data["head_user_id"] # <<>>
             raises == head_given /\ ~IsDecimal(data["head_user_id"])
             refused == IF ~Permitted(permission_level) THEN 403
                        ELSE IF company = {} THEN 404
                        ELSE IF DOMAIN data = {} THEN 400
                        ELSE IF raises THEN 500
                        ELSE 0
         IN \E contact_name \in (IF refused = 0 /\ head_given THEN HeadContactNames
                                 ELSE {""}),
               committed \in (IF refused = 0 THEN BOOLEAN ELSE {FALSE}) :
              LET status == IF refused # 0 THEN refused
                            ELSE IF committed THEN 200 ELSE 500
                  updated(c) ==
                      [f \in CompanyFields |->
                          IF f = "head_name" /\ head_given /\ contact_name # ""
                          THEN contact_name
                          ELSE IF f \in given THEN FieldValue(f, data[f])
                          ELSE c[f]]
              IN /\ db_companies' =
                       IF status = 200
                       THEN {IF c \in company THEN updated(c) ELSE c :
                                c \in db_companies}
                       ELSE db_companies
                 /\ route_call' = Noted(RouteCall("update_company", permission_level,
                                                  account_number, 0, data, status))
    /\ UNCHANGED <<pc, exit_code, srcVars, authVars, fetchVars, loopVars, calls,
                   db_contacts, db_locations, hist>>

\* The Company rows the script creates from the departments the source may
\* hold.
SyncedCompanies ==
    {NewCompany(CompanyPayload(c)) :
        c \in {d \in ExternalCompany :
                  d.custom_fields.kind = "obj" /\ d.custom_fields.account_number # ""}}

\* The script is not running, the store holds companies it has created, and
\* a client of the routes notes its calls.
InitRoutes ==
    /\ NotStarted
    /\ db_companies \in SUBSET SyncedCompanies
    /\ db_contacts = {}
    /\ db_locations = {}
    /\ hist = NoHist
    /\ route_call = NoCall

NextRoutes ==
    \/ AddLocation
    \/ DeleteLocation
    \/ UpdateCompany

\* The routes alone, called in any order by clients of any permission level.
SpecRoutes == InitRoutes /\ [][NextRoutes]_vars

\* The script is about to run on a store that holds company A as the script
\* created it, and the locations that calls of add_location and
\* delete_location for company A have left.
InitLocations ==
    /\ NotStarted
    /\ db_companies \in {S \in SUBSET SyncedCompanies :
                            \E c \in S : c.account_number = "A"}
    /\ db_contacts = {}
    /\ db_locations \in SUBSET {NewLocation(id, "A", [name |-> "Main Office",
                                                      address |-> "y"]) :
                                   id \in 1..MaxLocations}
    /\ hist = NoHist
    /\ route_call = Unwatched

\* Runs of the script on a store that clients of the location routes have
\* written to.
SpecLocations == InitLocations /\ [][Next]_vars

\* ------------------------------------------------------------ properties
\* The association set of the contact with the given id.
AssocOf(db, id) == UNION {c.company_account_numbers : c \in {d \in db : d.id = id}}

\* The positions of calls with the given resource and record index.
CallsFor(resource, idx) ==
    {k \in 1..Len(calls) : calls[k].resource = resource /\ calls[k].idx = idx}

IsWrite(call) == call.method \in {"POST", "PUT"}

\* The account key of an external company: empty when custom_fields is
\* missing or null or holds no account number.
AccountKey(company_data) ==
    IF company_data.custom_fields.kind = "obj"
    THEN company_data.custom_fields.account_number ELSE ""

\* The script is inside populate_database_via_api.
InCompanyLoop == pc \in {"c_get", "c_write", "c_loc"}
InUserLoop == pc \in {"u_query", "u_create", "u_detail", "u_update"}

\* C1: when the script is about to update an existing contact, the
\* association set it sends is exactly the union of the set the contact has
\* in the store (read by GET /contacts/{id}) and the account numbers
\* resolved for the user in this run.
C1_UpdateSendsUnion ==
    pc = "u_update" =>
        /\ contact_id # 0
        /\ \A a \in Accts :
             a \in all_account_numbers <=>
                \/ a \in AssocOf(db_contacts, contact_id)
                \/ \E d \in users.v[ui].department_ids :
                      /\ d \in DOMAIN fs_dept_id_to_account_number
                      /\ fs_dept_id_to_account_number[d] = a

\* C1 witness: a contact associated with A only is about to be updated by a
\* run that resolved B only; the set to send is {A, B}.
C1_Witness ==
    /\ pc = "u_update"
    /\ AssocOf(db_contacts, contact_id) = {"A"}
    /\ fs_company_account_numbers = {"B"}
    /\ all_account_numbers = {"A", "B"}

\* C2: no step of any run, completed or aborted, removes an account number
\* from the association set of a contact, or removes a contact.
C2_AssociationsOnlyGrow ==
    [][\A c \in db_contacts :
          \E d \in db_contacts' :
             /\ d.id = c.id
             /\ d.email = c.email
             /\ c.company_account_numbers \subseteq d.company_account_numbers]_vars

\* C2 witness: a run that knew account B only has updated a contact, and the
\* contact still has A next to B.
C2_Witness ==
    /\ pc = "exited"
    /\ exit_code = 0
    /\ DOMAIN fs_dept_id_to_account_number = {11}
    /\ \E k \in 1..Len(calls) : calls[k] = Call("PUT", "contacts", 1, 200)
    /\ \E c \in db_contacts : c.company_account_numbers = {"A", "B"}

\* C3: a company without account key (custom_fields missing or null
\* included) is skipped: the step that meets it sends no request, writes
\* nothing, leaves the lookup table alone and goes on with the next record.
C3_NoKeySkipped ==
    [][(pc = "c_get" /\ AccountKey(companies.v[ci]) = "") =>
          /\ calls' = calls
          /\ storeVars' = storeVars
          /\ fs_dept_id_to_account_number' = fs_dept_id_to_account_number
          /\ ci' = ci + 1
          /\ pc' \in {"c_get", "u_query"}]_vars

\* A 2xx status.
Is2xx(st) == st >= 200 /\ st < 300

\* The loop over the companies is through with company i's write.
Written(i) == ci > i \/ (ci = i /\ pc = "c_loc")

\* C4: a company with an account key gets at most one write, exactly one
\* once the loop is through with it; the write follows one lookup and is a
\* POST if and only if that lookup answered 404, a PUT otherwise; and when
\* the run has completed there is exactly one Company row with that key.
C4_OneWritePerCompany ==
    companies.some =>
      \A i \in 1..Len(companies.v) :
        LET key == AccountKey(companies.v[i])
            gets == {k \in CallsFor("companies", i) : calls[k].method = "GET"}
            writes == {k \in CallsFor("companies", i) : IsWrite(calls[k])}
        IN key # "" =>
             /\ Cardinality(writes) <= 1
             /\ Cardinality(gets) <= 1
             /\ Written(i) => Cardinality(writes) = 1
             /\ \A w \in writes :
                  \E g \in gets :
                     /\ g < w
                     /\ calls[w].method = "POST" <=> calls[g].status = 404
                     /\ calls[w].method = "PUT" <=> calls[g].status # 404
             /\ (pc = "exited" /\ exit_code = 0) =>
                  Cardinality({c \in db_companies : c.account_number = key}) = 1

\* C4 witness: a completed run over two companies with the same account key:
\* the first was created, the second updated, and one row has the key.
C4_Witness ==
    /\ pc = "exited"
    /\ exit_code = 0
    /\ Len(companies.v) = 2
    /\ AccountKey(companies.v[1]) = "A"
    /\ AccountKey(companies.v[2]) = "A"
    /\ \E k \in 1..Len(calls) : calls[k] = Call("POST", "companies", 1, 201)
    /\ \E k \in 1..Len(calls) : calls[k] = Call("PUT", "companies", 2, 200)
    /\ Cardinality({c \in db_companies : c.account_number = "A"}) = 1

\* C5: a user with a primary email that no contact has is sent to creation,
\* a user whose email a contact has to the update; right after a successful
\* POST /contacts there is exactly one contact with the user's email, and its
\* association set is exactly the account numbers the lookup table gives for
\* the user's department ids; a user without primary email causes no request
\* for contacts.
C5_ContactCreated ==
    /\ pc = "u_create" =>
          /\ users.v[ui].primary_email # ""
          /\ \A c \in db_contacts : c.email # users.v[ui].primary_email
    /\ pc \in {"u_detail", "u_update"} =>
          \E c \in db_contacts : c.id = contact_id /\ c.email = users.v[ui].primary_email
    /\ \A i \in 1..Len(users.v) :
          /\ users.v[i].primary_email = "" => CallsFor("contacts", i) = {}
          /\ (calls # <<>> /\ calls[Len(calls)] = Call("POST", "contacts", i, 201)) =>
                LET made == {c \in db_contacts : c.email = users.v[i].primary_email}
                IN /\ Cardinality(made) = 1
                   /\ \A c \in made : \A a \in Accts :
                        a \in c.company_account_numbers <=>
                           \E d \in users.v[i].department_ids :
                              /\ d \in DOMAIN fs_dept_id_to_account_number
                              /\ fs_dept_id_to_account_number[d] = a

\* C5 witness: a contact has just been created for a user of departments 10
\* and 11, both resolved: its association set is {A, B}.
C5_Witness ==
    /\ calls # <<>>
    /\ calls[Len(calls)] = Call("POST", "contacts", 1, 201)
    /\ users.v[1].department_ids = {10, 11}
    /\ \E c \in db_contacts :
          c.email = users.v[1].primary_email /\ c.company_account_numbers = {"A", "B"}

\* C7: a create or update request that comes back without a 2xx status is
\* the last request of the run, and the run has ended with exit code 1; the
\* rows written by the requests that succeeded before it are in the store.
C7_WriteFailureFailFast ==
    \A k \in 1..Len(calls) :
       /\ (IsWrite(calls[k]) /\ ~Is2xx(calls[k].status)) =>
             /\ k = Len(calls)
             /\ pc = "exited"
             /\ exit_code = 1
       /\ (IsWrite(calls[k]) /\ Is2xx(calls[k].status) /\ calls[k].resource = "companies") =>
             \E c \in db_companies :
                c.account_number = AccountKey(companies.v[calls[k].idx])
       /\ (IsWrite(calls[k]) /\ Is2xx(calls[k].status) /\ calls[k].resource = "contacts") =>
             \E c \in db_contacts : c.email = users.v[calls[k].idx].primary_email

\* C7 witness: the run created the first company, the write for the second
\* failed, the run has ended with code 1 and the first company is stored.
C7_Witness ==
    /\ pc = "exited"
    /\ exit_code = 1
    /\ Len(calls) = 4
    /\ calls[2] = Call("POST", "companies", 1, 201)
    /\ calls[4] = Call("POST", "companies", 2, 500)
    /\ \E c \in db_companies : c.account_number = AccountKey(companies.v[1])
    /\ \A c \in db_companies : c.account_number # AccountKey(companies.v[2])

\* A page request failed: no answer, or a status that is neither 2xx nor 429.
FetchFailed(r) == r.exc \/ (r.status >= 0 /\ ~Is2xx(r.status) /\ r.status # 429)

\* C8: a fetch whose page request failed has returned None, whatever it had
\* accumulated; and while either fetch result is None the run has sent no
\* request to the local API and is not inside the reconciliation.
C8_FetchFailureNoPartialSync ==
    /\ (pc = "got_companies" /\ FetchFailed(fs_response)) => companies = None
    /\ (pc = "check" /\ FetchFailed(fs_response)) => users = None
    /\ (~companies.some \/ ~users.some) =>
          /\ calls = <<>>
          /\ ~InCompanyLoop
          /\ ~InUserLoop

\* C8 witness: the company fetch gave companies, the user fetch failed at
\* page 2 after a page of users, and its result is None.
C8_Witness ==
    /\ pc = "check"
    /\ Truthy(companies)
    /\ fs_response.status = 500
    /\ page = 2
    /\ all_users # <<>>
    /\ users = None

\* The wait a Retry-After header asks for.
ExpectedWait(h) ==
    IF ~h.present THEN 5
    ELSE IF h.text = <<"2">> THEN 2
    ELSE IF h.text = <<"1", "0">> THEN 10
    ELSE -1

\* C9: a pass of get_all_users that gets a 429 sleeps the Retry-After time
\* (5 without the header) and stays in the loop at the same page with the
\* same accumulated records; and the list the fetch returns is the source's
\* collection, no record dropped or repeated.
C9_UsersRetrySamePage ==
    [][/\ (pc = "users" /\ fs_response'.status = 429) =>
            /\ pc' = "users"
            /\ page' = page
            /\ all_users' = all_users
            /\ users' = users
            /\ slept' = ExpectedWait(fs_response'.header)
       /\ (pc = "users" /\ pc' = "check" /\ users'.some) => users'.v = srcUsers]_vars

\* C9 witness: a 429 with Retry-After: 10 at page 2: the fetch still is at
\* page 2 with the record of page 1 and has slept 10.
C9_Witness ==
    /\ pc = "users"
    /\ fs_response.status = 429
    /\ page = 2
    /\ Len(all_users) = 1
    /\ slept = 10

\* C10: get_all_companies does not return on a 429: after such an answer
\* the fetch is still in its loop.
C10_CompaniesRetryOn429 ==
    (pc \in {"companies", "got_companies"} /\ fs_response.status = 429) =>
        /\ pc = "companies"
        /\ companies = None

\* C6: when a run has completed and the next run, on the same external
\* companies and users, completes too, the store after the second of them
\* is the store after the first, and the second has sent no POST.
C6_SecondRunChangesNothing ==
    (hist.phase = "second" /\ pc = "exited" /\ exit_code = 0) =>
        /\ storeVars = hist.store
        /\ \A k \in 1..Len(calls) : calls[k].method # "POST"

\* C6 witness: the second of two completed runs on the same data has
\* updated a company, synced its location and updated a contact of both
\* accounts.
C6_Witness ==
    /\ hist.phase = "second"
    /\ pc = "exited"
    /\ exit_code = 0
    /\ \E k \in 1..Len(calls) : calls[k] = Call("PUT", "companies", 2, 200)
    /\ \E k \in 1..Len(calls) : calls[k].resource = "locations"
    /\ \E k \in 1..Len(calls) : calls[k] = Call("PUT", "contacts", 1, 200)
    /\ \E c \in db_contacts : c.company_account_numbers = {"A", "B"}
    /\ db_locations # {}

\* The number of non-empty pages of a collection.
NonEmptyPages(coll) == (Len(coll) + PerPage - 1) \div PerPage

\* The pages 1..n of a collection, one after the other.
RECURSIVE ConcatPages(_, _)
ConcatPages(coll, n) ==
    IF n = 0 THEN <<>> ELSE ConcatPages(coll, n - 1) \o PageOf(coll, n)

\* Requests for the pages 1 .. n, in that order, each answered 200.
PagesInOrder(n) == [k \in 1..n |-> [page |-> k, status |-> 200]]

\* C11: a fetch that has met no 429 and no failure has asked for the pages
\* 1, 2, ... in that order, each once, and holds the records of the
\* non-empty pages it got, in page order; it returns at the first empty
\* page, having asked for pages 1 .. k+1 of a source with k non-empty
\* pages, and what it returns is the k pages one after the other.
C11_PagesInOrder ==
    /\ pc = "companies" =>
          /\ requested = PagesInOrder(page - 1)
          /\ page - 1 <= NonEmptyPages(srcCompanies)
          /\ all_companies = ConcatPages(srcCompanies, page - 1)
    /\ (pc = "got_companies" /\ companies.some) =>
          /\ requested = PagesInOrder(NonEmptyPages(srcCompanies) + 1)
          /\ companies.v = ConcatPages(srcCompanies, NonEmptyPages(srcCompanies))
          /\ Len(companies.v) = Len(srcCompanies)
    /\ (pc = "users" /\ Answered429(requested) = 0) =>
          /\ requested = PagesInOrder(page - 1)
          /\ page - 1 <= NonEmptyPages(srcUsers)
          /\ all_users = ConcatPages(srcUsers, page - 1)
    /\ (pc = "check" /\ users.some /\ Answered429(requested) = 0) =>
          /\ requested = PagesInOrder(NonEmptyPages(srcUsers) + 1)
          /\ users.v = ConcatPages(srcUsers, NonEmptyPages(srcUsers))
          /\ Len(users.v) = Len(srcUsers)

\* C11 witness: the company fetch has returned from a source with two
\* non-empty pages: it asked for pages 1, 2 and 3 and returns two pages.
C11_Witness ==
    /\ pc = "got_companies"
    /\ companies.some
    /\ NonEmptyPages(srcCompanies) = 2
    /\ requested = PagesInOrder(3)
    /\ Len(companies.v) = 2 * PerPage

\* C12: when POST /token gave no token (no answer, an error status, or a
\* body without token), get_nexus_token has returned None and the run is
\* over with exit code 1, having sent no page request to the external
\* source and no request to the local API for companies, contacts or
\* locations; a run that has sent any such request has a token.
C12_TokenFailureAborts ==
    /\ token_outcome \in {"no_token", "http_error", "transport_error"} =>
          /\ nexus_token = ""
          /\ pc = "exited"
          /\ exit_code = 1
          /\ requested = <<>>
          /\ fs_response = NoResponse
          /\ ~companies.some /\ ~users.some
          /\ calls = <<>>
    /\ (requested # <<>> \/ calls # <<>> \/ InCompanyLoop \/ InUserLoop) =>
          /\ token_outcome = "token"
          /\ nexus_token # ""

\* C12 witness: the answer to POST /token had no token field, and the run
\* is over with code 1; the store holds what an earlier run wrote.
C12_Witness ==
    /\ token_outcome = "no_token"
    /\ pc = "exited"
    /\ exit_code = 1
    /\ calls = <<>>
    /\ db_companies # {}
    /\ db_contacts # {}

\* A request to the local API that makes the script raise: an error status,
\* but for the 404 of a company lookup.
CallFailed(call) ==
    /\ RaisesForStatus(call.status)
    /\ ~(call.method = "GET" /\ call.resource = "companies" /\ call.status = 404)

\* The reconciliation of the run did not get through: a request failed, or
\* the record the company loop was at made the script raise.
ReconciliationFailed ==
    \/ \E k \in 1..Len(calls) : CallFailed(calls[k])
    \/ /\ companies.some
       /\ ci \in 1..Len(companies.v)
       /\ companies.v[ci].custom_fields.kind = "null"

\* C13: the exit code of a run is 0 or 1, and it is 0 exactly when the
\* configuration was loaded, a token was obtained, each of the two fetches
\* returned a list (an empty one included) and the reconciliation got
\* through without a failure.
C13_ExitCode ==
    pc = "exited" =>
        /\ exit_code \in {0, 1}
        /\ exit_code = 0 <=>
              /\ token_outcome = "token"
              /\ companies.some
              /\ users.some
              /\ ~ReconciliationFailed

\* C14: the step that syncs the location of a company with an address
\* leaves exactly one location named "Main Office" for that company, with
\* the address and the phone number of the company, whatever locations the
\* store held before; and it adds no row when the company had a "Main
\* Office" already.
C14_OneMainOffice ==
    [][(pc = "c_loc" /\ pc' # "c_loc") =>
          LET custom_fields == companies.v[ci].custom_fields
              before == MainOffices(db_locations, custom_fields.account_number)
              after == MainOffices(db_locations', custom_fields.account_number)
          IN /\ Cardinality(after) = 1
             /\ \A l \in after :
                   /\ l.address = custom_fields.address
                   /\ l.phone_number = custom_fields.company_main_number
             /\ before # {} => {l.id : l \in db_locations'} = {l.id : l \in db_locations}]_vars

\* The route named by the last noted call.
Called(route) == route_call.route = route

\* C18: a call of update_company leaves contacts, locations and every other
\* company as they were and keeps the set of account numbers; in the
\* company it names, a column changes only if it is an editable field that
\* is a key of the body, or the derived head_name when the body has
\* head_user_id; account_number and freshservice_id never change; and a call
\* that is not answered 200 changes nothing.
C18_UpdateAllowlist ==
    [][route_call'.route = "update_company" =>
          LET account_number == route_call'.account_number
              data == route_call'.data
          IN /\ db_contacts' = db_contacts
             /\ db_locations' = db_locations
             /\ {c.account_number : c \in db_companies'} =
                   {c.account_number : c \in db_companies}
             /\ Cardinality(db_companies') = Cardinality(db_companies)
             /\ \A c \in db_companies :
                   c.account_number # account_number => c \in db_companies'
             /\ \A c \in db_companies, d \in db_companies' :
                   (c.account_number = account_number /\ d.account_number = account_number)
                   => /\ d.freshservice_id = c.freshservice_id
                      /\ d.company_main_number # c.company_main_number
                            => "company_main_number" \in DOMAIN data
                      /\ d.head_user_id # c.head_user_id
                            => "head_user_id" \in DOMAIN data
                      /\ d.head_name # c.head_name
                            => "head_user_id" \in DOMAIN data
             /\ route_call'.status # 200 => db_companies' = db_companies]_vars

\* C18 witness: a body with all four keys has been applied to company A:
\* the phone number and the head are those of the body, the head's name is
\* the contact's, and the row still is company A of department 10.
C18_Witness ==
    /\ Called("update_company")
    /\ route_call.status = 200
    /\ route_call.account_number = "A"
    /\ DOMAIN route_call.data =
          {"company_main_number", "head_user_id", "account_number", "freshservice_id"}
    /\ \E c \in db_companies :
          /\ c.account_number = "A"
          /\ c.freshservice_id = 10
          /\ c.company_main_number = "777"
          /\ c.head_user_id = 7
          /\ c.head_name = "Ann"
    /\ \E c \in db_companies : c.account_number = "B" /\ c.company_main_number = "555"
    /\ \A c \in db_companies : c.account_number \in {"A", "B"}

\* The body of the noted call lacks a name or an address.
IncompleteLocation(call) ==
    Get(call.data, "name") = "" \/ Get(call.data, "address") = ""

\* The noted call came from a caller who is neither admin nor technician.
Forbidden(call) == call.permission_level \notin {"admin", "technician"}

\* C19, as the specification states it: a call of one of the three routes by a caller who is
\* neither admin nor technician is answered 403 and changes nothing in the
\* store; and a call of add_location without name or without address is
\* answered 400 and creates no location.
C19_GateAndValidation ==
    [][/\ (route_call'.route \in {"add_location", "delete_location", "update_company"}
           /\ Forbidden(route_call'))
          => /\ route_call'.status = 403
             /\ storeVars' = storeVars
       /\ (route_call'.route = "add_location" /\ IncompleteLocation(route_call'))
          => /\ route_call'.status = 400
             /\ db_locations' = db_locations]_vars

\* C19, in the order of the route's tests: the gate as above; a call of
\* add_location without name or
\* without address creates no location, and it is answered 400 when the
\* caller is permitted and the company exists, 403 when the caller is not
\* permitted, and 404 when the caller is permitted and the company does not
\* exist.
C19_GateThenCompanyThenValidation ==
    [][/\ (route_call'.route \in {"add_location", "delete_location", "update_company"}
           /\ Forbidden(route_call'))
          => /\ route_call'.status = 403
             /\ storeVars' = storeVars
       /\ (route_call'.route = "add_location" /\ IncompleteLocation(route_call'))
          => /\ db_locations' = db_locations
             /\ route_call'.status =
                   IF Forbidden(route_call') THEN 403
                   ELSE IF \A c \in db_companies :
                              c.account_number # route_call'.account_number
                   THEN 404
                   ELSE 400]_vars

\* C19 witness: a technician has called add_location for a company of the
\* store with a name and no address: the answer is 400, and the store holds
\* no more than the location an earlier call created.
C19_Witness ==
    /\ Called("add_location")
    /\ route_call.permission_level = "technician"
    /\ DOMAIN route_call.data = {"name"}
    /\ route_call.status = 400
    /\ \E c \in db_companies : c.account_number = route_call.account_number
    /\ Cardinality(db_locations) = 1

\* The script is fetching from the external source.
Fetching == pc \in {"companies", "got_companies", "users", "check"}

\* The companies of the batch that carry an account key.
Keyed == {k \in 1..Len(companies.v) : AccountKey(companies.v[k]) # ""}

\* C15: the phases of a run come in order.  The token is asked for once,
\* and a fetch runs only with a token; get_all_users starts, from page 1 and
\* with nothing requested, only when get_all_companies has returned; the
\* local API and the locations are touched only when both fetches have
\* returned and no fetch is running; no company or location call follows a
\* contact call; and from the first contact on the lookup table holds
\* exactly the companies of the batch with an account key and is not
\* changed while the run lasts.
C15_PhaseOrder ==
    [][/\ token_outcome # "" => token_outcome' \in {token_outcome, ""}
       /\ token_outcome' # token_outcome => pc \in {"token", "exited"}
       /\ (Fetching \/ requested # <<>>) =>
             token_outcome = "token" /\ nexus_token # "" /\ calls = <<>>
       /\ (pc' = "got_companies" /\ pc # "got_companies") =>
             /\ pc = "companies"
             /\ companies' \in {None, Some(all_companies)}
       /\ (pc' = "users" /\ pc # "users") =>
             /\ pc = "got_companies"
             /\ page' = 1 /\ requested' = <<>> /\ all_users = <<>>
             /\ companies' = companies
       /\ calls' # <<>> =>
             /\ ~Fetching' /\ requested' = <<>>
             /\ Truthy(companies') /\ Truthy(users')
       /\ \A i, j \in 1..Len(calls') :
             (i < j /\ calls'[i].resource = "contacts") =>
                 calls'[j].resource = "contacts"
       /\ InUserLoop =>
             /\ DOMAIN fs_dept_id_to_account_number =
                    {companies.v[k].id : k \in Keyed}
             /\ \A k \in Keyed :
                    fs_dept_id_to_account_number[companies.v[k].id] =
                        AccountKey(companies.v[k])
             /\ pc' # "idle" =>
                    fs_dept_id_to_account_number' = fs_dept_id_to_account_number
      ]_vars

\* The first contact is about to be created after two companies, one with
\* a location, were written.
C15_Witness ==
    /\ pc = "u_create"
    /\ ui = 1
    /\ Cardinality(DOMAIN fs_dept_id_to_account_number) = 2
    /\ \E k \in 1..Len(calls) : calls[k].resource = "locations"
    /\ calls[Len(calls)].resource = "contacts"

\* The account numbers of the Company rows, the emails of the Contact rows
\* and the ids of the Location rows.
AccountNumbers(db) == {c.account_number : c \in db}
ContactEmails(db) == {c.email : c \in db}
LocationIds(db) == {l.id : l \in db}

\* C16: no step of the script, in any run, on any data, completed or
\* aborted, takes an account number, a contact email or a location out of
\* the store, and no request of the script is a DELETE.
C16_SyncNeverDeletes ==
    [][/\ AccountNumbers(db_companies) \subseteq AccountNumbers(db_companies')
       /\ ContactEmails(db_contacts) \subseteq ContactEmails(db_contacts')
       /\ LocationIds(db_locations) \subseteq LocationIds(db_locations')
       /\ Cardinality(db_companies) <= Cardinality(db_companies')
       /\ Cardinality(db_contacts) <= Cardinality(db_contacts')
       /\ Cardinality(db_locations) <= Cardinality(db_locations')
       /\ \A k \in 1..Len(calls') : calls'[k].method # "DELETE"
      ]_vars

\* A run has completed, and has written, on a batch without company A and
\* without the requester e1, and the store still holds both and A's
\* location.
C16_Witness ==
    /\ pc = "exited"
    /\ exit_code = 0
    /\ \E k \in 1..Len(calls) : IsWrite(calls[k])
    /\ \A k \in 1..Len(companies.v) : companies.v[k].id # 10
    /\ \A k \in 1..Len(users.v) : users.v[k].primary_email # "e1"
    /\ "A" \in AccountNumbers(db_companies)
    /\ "e1" \in ContactEmails(db_contacts)
    /\ \E l \in db_locations : l.company_account_number = "A"

\* The account keys of the companies of the batch that carry one and whose
\* id is among the given department ids.
KeysOfDepartments(department_ids) ==
    {AccountKey(companies.v[k]) :
        k \in {j \in Keyed : companies.v[j].id \in department_ids}}

\* C17: the account numbers resolved for a user are exactly the account
\* keys of the companies of the batch that carry a key and whose id is among
\* the user's department ids; the set holds no empty element; and the
\* resolution itself never ends the run: the step that resolves, when its
\* request is answered without error, goes on to the contact's write.
C17_DepartmentResolution ==
    [][/\ pc' \in {"u_create", "u_detail", "u_update"} =>
             /\ fs_company_account_numbers' =
                    KeysOfDepartments(users'.v[ui'].department_ids)
             /\ "" \notin fs_company_account_numbers'
       /\ (pc = "u_query" /\ Len(calls') > Len(calls)
               /\ ~RaisesForStatus(calls'[Len(calls')].status)) =>
             pc' \in {"u_create", "u_detail"}
      ]_vars

\* A user in departments 10 and 11 is resolved to B alone: department 10
\* belongs to a company of the batch that was skipped for want of a key.
C17_Witness ==
    /\ pc = "u_create"
    /\ users.v[ui].department_ids = {10, 11}
    /\ fs_company_account_numbers = {"B"}
    /\ \E k \in 1..Len(companies.v) :
          companies.v[k].id = 10 /\ AccountKey(companies.v[k]) = ""

\* C20: get_all_users, once called, returns, when the source answers 429
\* finitely often and holds finitely many records.  While it runs the page
\* counter never decreases; it goes up, by one, only in a pass that appended
\* a non-empty page; a pass answered 429 leaves the page counter and the
\* accumulated records as they were; a pass that got no answer or a 5xx ends
\* the fetch with None; and only a pass answered 429 is followed by a
\* request of the same page.
C20_FetchTerminates ==
    /\ [][pc = "users" =>
            /\ page' >= page
            /\ page' # page =>
                  /\ page' = page + 1
                  /\ PageOf(srcUsers, page) # <<>>
                  /\ all_users' = all_users \o PageOf(srcUsers, page)
                  /\ fs_response'.status = 200
            /\ fs_response'.status = 429 =>
                  /\ page' = page /\ all_users' = all_users
                  /\ pc' = "users"
            /\ (fs_response'.exc \/ fs_response'.status >= 500) =>
                  /\ pc' = "check" /\ users' = None
                  /\ page' = page /\ all_users' = all_users
            /\ \A k \in 1..Len(requested) :
                  /\ requested[k].status \in {200, 429}
                  /\ requested'[k + 1].page = requested[k].page =>
                        requested[k].status = 429
         ]_vars
    /\ (pc = "users") ~> (pc = "check")

\* get_all_users has returned the source's requesters after a pass that was
\* answered 429.
C20_Witness ==
    /\ pc = "check"
    /\ users.some
    /\ users.v # <<>>
    /\ \E k \in 1..Len(requested) : requested[k].status = 429

\* The contacts of the store with the given email.
ContactsOf(email) == {c \in db_contacts : c.email = email}

\* The users of the batch with the given primary email.
UsersOf(email) == {k \in 1..Len(users.v) : users.v[k].primary_email = email}

\* The calls to /contacts for user k that were sent with the given method.
ContactCalls(k, method) ==
    {j \in CallsFor("contacts", k) : calls[j].method = method}

\* C21: the store never holds two contacts with the email e1; and when a
\* run on a batch in which several users carry e1 has completed, there is
\* one contact with that email, its association set holds the account
\* numbers resolved for each of those users, at most the first of them was
\* sent as a POST, and each later one was sent as one PUT.
C21_OneContactPerEmail ==
    /\ Cardinality(ContactsOf("e1")) <= 1
    /\ (pc = "exited" /\ exit_code = 0 /\ Cardinality(UsersOf("e1")) >= 2) =>
          /\ Cardinality(ContactsOf("e1")) = 1
          /\ \A c \in ContactsOf("e1") : \A k \in UsersOf("e1") :
                KeysOfDepartments(users.v[k].department_ids)
                    \subseteq c.company_account_numbers
          /\ \A k \in UsersOf("e1") :
                /\ Cardinality(ContactCalls(k, "POST") \cup ContactCalls(k, "PUT")) = 1
                /\ (\E j \in UsersOf("e1") : j < k) => ContactCalls(k, "POST") = {}

\* A run has completed on a batch whose first user, in department 10, made
\* the contact e1 and whose second, in departments 10 and 11, updated it:
\* the contact is associated with A and B.
C21_Witness ==
    /\ pc = "exited"
    /\ exit_code = 0
    /\ Len(users.v) >= 2
    /\ users.v[1] = [primary_email |-> "e1", department_ids |-> {10}]
    /\ users.v[2] = [primary_email |-> "e1", department_ids |-> {10, 11}]
    /\ ContactCalls(1, "POST") # {}
    /\ ContactCalls(2, "PUT") # {}
    /\ \E c \in db_contacts : c.email = "e1" /\ c.company_account_numbers = {"A", "B"}

\* C22: while another client adds associations between the requests of a
\* run, no step takes an association from a contact: each account number a
\* contact is associated with before a step, it is associated with after
\* it.
C22_NoLostAssociation ==
    [][\A c \in db_contacts : \A account_number \in c.company_account_numbers :
          \E d \in db_contacts' :
             d.id = c.id /\ account_number \in d.company_account_numbers]_vars

====
